---- MODULE Spec2Model ----
(***************************************************************************)
(* Model of workers/run-endpoint/src/index.js: the Worker's fetch handler  *)
(* that validates a 3-letter IATA code and forwards a workflow dispatch to *)
(* the GitHub REST API.                                                    *)
(*                                                                         *)
(* A JavaScript string is a sequence of characters, each character a       *)
(* one-character TLA+ string (configuration values and fixed texts are     *)
(* sequences of longer fragments; only their emptiness and identity        *)
(* matter).  A JavaScript/JSON value is a record [t |-> type, v |-> value].*)
(* An invocation of the handler advances from one await to the next; an    *)
(* exception that no try/catch of the handler catches ends the invocation  *)
(* without a Response (pc = "threw").                                      *)
(***************************************************************************)
EXTENDS Naturals, Sequences, FiniteSets, TLC

(***************************************************************************)
(* Bounds of the model.                                                    *)
(***************************************************************************)
\* longest iata string enumerated exhaustively over Alphabet
MaxLen == 3
\* number of handler invocations the runtime runs concurrently in ConcSpec
NInvocations == 2

(***************************************************************************)
(* JavaScript values.                                                      *)
(***************************************************************************)
Undefined == [t |-> "undefined", v |-> 0]
Null == [t |-> "null", v |-> 0]
Bool(b) == [t |-> "boolean", v |-> b]
Num(n) == [t |-> "number", v |-> n]
Str(s) == [t |-> "string", v |-> s]
Arr(a) == [t |-> "array", v |-> a]
Obj(f) == [t |-> "object", v |-> f]

EmptyObject == Obj(<<>>)
IataObject(x) == Obj("iata" :> x)

\* o.iata for a parsed JSON value o other than null: own property of an
\* object, undefined on numbers, booleans, strings and arrays.
GetIata(o) ==
  IF o.t = "object" /\ "iata" \in DOMAIN o.v THEN o.v["iata"] ELSE Undefined

\* null.iata raises a TypeError.
PropertyReadThrows(o) == o.t \in {"null", "undefined"}

\* ToBoolean(x) is false
Falsy(x) ==
  \/ x.t \in {"undefined", "null"}
  \/ x.t = "boolean" /\ x.v = FALSE
  \/ x.t = "number" /\ x.v = 0
  \/ x.t = "string" /\ x.v = <<>>

\* x || d
OrElse(x, d) == IF Falsy(x) THEN d ELSE x

Digit(n) == <<"0", "1", "2", "3", "4", "5", "6", "7", "8", "9">>[n + 1]

RECURSIVE Digits(_)
\* decimal digits of a natural number
Digits(n) == IF n < 10 THEN <<Digit(n)>> ELSE Digits(n \div 10) \o <<Digit(n % 10)>>

RECURSIVE JsString(_)
RECURSIVE Join(_)
\* Array.prototype.join(","): null and undefined elements give ""
Join(a) ==
  IF a = <<>> THEN <<>>
  ELSE LET h == IF Head(a).t \in {"undefined", "null"} THEN <<>> ELSE JsString(Head(a))
       IN IF Len(a) = 1 THEN h ELSE h \o <<",">> \o Join(Tail(a))

\* String(x)
JsString(x) ==
  CASE x.t = "string" -> x.v
    [] x.t = "undefined" -> <<"u", "n", "d", "e", "f", "i", "n", "e", "d">>
    [] x.t = "null" -> <<"n", "u", "l", "l">>
    [] x.t = "boolean" -> IF x.v THEN <<"t", "r", "u", "e">> ELSE <<"f", "a", "l", "s", "e">>
    [] x.t = "number" -> Digits(x.v)
    [] x.t = "array" -> Join(x.v)
    [] x.t = "object" -> <<"[", "o", "b", "j", "e", "c", "t", " ", "O", "b", "j", "e", "c", "t", "]">>

Lower == <<"a", "b", "c", "d", "e", "f", "g", "h", "i", "j", "k", "l", "m",
           "n", "o", "p", "q", "r", "s", "t", "u", "v", "w", "x", "y", "z">>
Upper == <<"A", "B", "C", "D", "E", "F", "G", "H", "I", "J", "K", "L", "M",
           "N", "O", "P", "Q", "R", "S", "T", "U", "V", "W", "X", "Y", "Z">>
WhiteSpace == {" ", "\t", "\n"}

IsWhiteSpace(c) == c \in WhiteSpace

RECURSIVE TrimStart(_)
TrimStart(s) ==
  IF s # <<>> /\ IsWhiteSpace(Head(s)) THEN TrimStart(Tail(s)) ELSE s

RECURSIVE TrimEnd(_)
TrimEnd(s) ==
  IF s # <<>> /\ IsWhiteSpace(s[Len(s)]) THEN TrimEnd(SubSeq(s, 1, Len(s) - 1)) ELSE s

\* String.prototype.trim
Trim(s) == TrimEnd(TrimStart(s))

\* upper-case mapping of one character; the sharp s maps to two characters
UpperChar(c) ==
  IF \E k \in DOMAIN Lower : Lower[k] = c
  THEN <<Upper[CHOOSE k \in DOMAIN Lower : Lower[k] = c]>>
  ELSE IF c = "ß" THEN <<"S", "S">> ELSE <<c>>

RECURSIVE ToUpperCase(_)
\* String.prototype.toUpperCase
ToUpperCase(s) ==
  IF s = <<>> THEN <<>> ELSE UpperChar(Head(s)) \o ToUpperCase(Tail(s))

\* /^[A-Z]{3}$/.test(s)
IataRegexTest(s) ==
  /\ Len(s) = 3
  /\ \A k \in 1..3 : \E u \in DOMAIN Upper : Upper[u] = s[k]

\* the normalisation without trim()
NormalizeIataNoTrim(o) == ToUpperCase(JsString(OrElse(GetIata(o), Str(<<>>))))

\* String(body.iata || "").trim().toUpperCase(), for a body whose property
\* read does not throw
NormalizeIata(o) == ToUpperCase(Trim(JsString(OrElse(GetIata(o), Str(<<>>)))))

(***************************************************************************)
(* Inputs: configuration, inbound requests, upstream outcomes.             *)
(***************************************************************************)
ConfigNames == {"GH_OWNER", "GH_REPO", "GH_WORKFLOW_FILE", "GH_WORKFLOW_REF", "GH_TOKEN"}

\* a configuration value is absent, the empty string or a non-empty string
ConfigValues(text) == {Undefined, Str(<<>>), Str(<<text>>)}

Envs ==
  [GH_OWNER : ConfigValues("motstothartarup"),
   GH_REPO : ConfigValues("Aviation-Iia-Master-Repository"),
   GH_WORKFLOW_FILE : ConfigValues("run-both.yml"),
   GH_WORKFLOW_REF : ConfigValues("global_integration"),
   GH_TOKEN : ConfigValues("ghp_secret")]

FullEnv == CHOOSE e \in Envs : \A n \in ConfigNames : e[n].t = "string" /\ e[n].v # <<>>

Methods == {"OPTIONS", "POST", "GET", "PUT"}

Alphabet == {"j", "K", "1", " "}

\* every string over Alphabet of length at most n
Strings(n) == UNION {[1..k -> Alphabet] : k \in 0..n}

ExampleStrings ==
  {<<"j", "f", "k">>, <<" ", "j", "f", "k", " ">>, <<"a", "b", "1">>,
   <<"\t", "J", "F", "K", "\n">>, <<"j", "f", "k", "x">>, <<"s", "ß">>,
   <<"j", " ", "f", "k">>}

IataValues ==
  {Null, Bool(FALSE), Bool(TRUE), Num(0), Num(123), EmptyObject,
   Arr(<<>>), Arr(<<Str(<<"j", "f", "k">>)>>), Arr(<<Str(<<"j">>), Str(<<"k">>)>>)}
  \cup {Str(s) : s \in Strings(MaxLen) \cup ExampleStrings}

\* the values request.json() can resolve with
JsonBodies ==
  {Null, Num(7), Bool(TRUE), Str(<<"j", "f", "k">>), Arr(<<>>), EmptyObject,
   Obj("code" :> Str(<<"j", "f", "k">>))}
  \cup {IataObject(x) : x \in IataValues}

\* an inbound body either fails to parse or parses to a JSON value
Bodies ==
  {[parses |-> FALSE, json |-> Undefined]}
  \cup {[parses |-> TRUE, json |-> j] : j \in JsonBodies}

\* bodies sent along with the methods whose handling never reads the body
SampleBodies ==
  {[parses |-> FALSE, json |-> Undefined],
   [parses |-> TRUE, json |-> Null],
   [parses |-> TRUE, json |-> IataObject(Str(<<"j", "f", "k">>))],
   [parses |-> TRUE, json |-> IataObject(Str(<<"a", "b", "1">>))]}

Requests ==
  [method : {"POST"}, body : Bodies]
  \cup [method : Methods \ {"POST"}, body : SampleBodies]

ValidPost == [method |-> "POST", body |-> [parses |-> TRUE, json |-> IataObject(Str(<<"j", "f", "k">>))]]

ConcRequests ==
  {ValidPost,
   [method |-> "POST", body |-> [parses |-> TRUE, json |-> IataObject(Str(<<"a", "b", "1">>))]],
   [method |-> "POST", body |-> [parses |-> FALSE, json |-> Undefined]],
   [method |-> "OPTIONS", body |-> [parses |-> FALSE, json |-> Undefined]]}

ConcEnvs == {FullEnv, [FullEnv EXCEPT !.GH_TOKEN = Undefined]}

UpstreamStatuses == {200, 204, 299, 300, 404, 500}

UpstreamTexts == {<<>>, <<"Not Found">>, <<"{\"message\":\"Bad credentials\"}">>}

\* Response.ok of the Fetch API
Ok(status) == status >= 200 /\ status <= 299

(***************************************************************************)
(* Responses.                                                              *)
(***************************************************************************)
cors ==
  [k \in {"Access-Control-Allow-Origin", "Access-Control-Allow-Methods",
          "Access-Control-Allow-Headers"} |->
     CASE k = "Access-Control-Allow-Origin" -> "*"
       [] k = "Access-Control-Allow-Methods" -> "POST,OPTIONS"
       [] k = "Access-Control-Allow-Headers" -> "content-type"]

\* { ...cors, "content-type": "application/json" }
JsonHeaders == ("content-type" :> "application/json") @@ cors

\* new Response(null, ...): no body
NoBody == Null

\* the invocation has not returned a Response
NoResponse == [status |-> 0, headers |-> <<>>, body |-> Undefined]

\* new Response(JSON.stringify(payload), { status, headers: JsonHeaders });
\* the body is held as the JSON value that was serialised
JsonResponse(status, payload) ==
  [status |-> status, headers |-> JsonHeaders, body |-> payload]

PreflightResponse == [status |-> 204, headers |-> cors, body |-> NoBody]

MethodNotAllowedResponse == JsonResponse(405, [ok |-> FALSE, error |-> "POST only"])

InvalidJsonResponse == JsonResponse(400, [ok |-> FALSE, error |-> "Invalid JSON"])

InvalidIataResponse == JsonResponse(400, [ok |-> FALSE, error |-> "IATA must be 3 letters"])

MissingConfigResponse == JsonResponse(500, [ok |-> FALSE, error |-> "Missing env vars/secrets"])

DispatchFailedResponse(status, text) ==
  JsonResponse(502, [ok |-> FALSE, error |-> "GitHub dispatch failed",
                     status |-> status, detail |-> text])

SuccessResponse(code) ==
  JsonResponse(200, [ok |-> TRUE, dispatched |-> TRUE, iata |-> code])

(***************************************************************************)
(* State.                                                                  *)
(***************************************************************************)
VARIABLES
  env,       \* the configuration bindings passed to every invocation
  request,   \* request[i]: the inbound request of invocation i
  pc,        \* pc[i]: where invocation i stands
  body,      \* body[i]: the local `body`
  iata,      \* iata[i]: the local `iata`
  r,         \* r[i]: the local `r`, the upstream response
  outbound,  \* outbound[i]: the calls of fetch(url, ...) invocation i has made
  response   \* response[i]: the Response invocation i returned

vars == <<env, request, pc, body, iata, r, outbound, response>>

Started == DOMAIN pc

NoUpstream == [status |-> 0, ok |-> FALSE, text |-> <<>>, readable |-> FALSE]

\* the configuration test without the token
MissingConfigNoToken(e) ==
  \/ Falsy(e.GH_OWNER)
  \/ Falsy(e.GH_REPO)
  \/ Falsy(e.GH_WORKFLOW_FILE)
  \/ Falsy(e.GH_WORKFLOW_REF)

\* !owner || !repo || !workflow || !ref || !token
MissingConfig(e) ==
  \/ Falsy(e.GH_OWNER)
  \/ Falsy(e.GH_REPO)
  \/ Falsy(e.GH_WORKFLOW_FILE)
  \/ Falsy(e.GH_WORKFLOW_REF)
  \/ Falsy(e.GH_TOKEN)

\* `https://api.github.com/repos/${owner}/${repo}/actions/workflows/${workflow}/dispatches`
DispatchUrl(e) ==
  <<"https://api.github.com/repos/">> \o JsString(e.GH_OWNER) \o <<"/">>
    \o JsString(e.GH_REPO) \o <<"/actions/workflows/">>
    \o JsString(e.GH_WORKFLOW_FILE) \o <<"/dispatches">>

\* the arguments of fetch(url, { method, headers, body })
OutboundRequest(e, code) ==
  [url |-> DispatchUrl(e),
   method |-> "POST",
   headers |-> [Authorization |-> <<"Bearer ">> \o JsString(e.GH_TOKEN),
                Accept |-> "application/vnd.github+json",
                UserAgent |-> "aviation-iia-run-endpoint",
                ContentType |-> "application/json"],
   body |-> [ref |-> e.GH_WORKFLOW_REF, inputs |-> [iata |-> code]]]

Init ==
  /\ env \in Envs
  /\ request = <<>>
  /\ pc = <<>>
  /\ body = <<>>
  /\ iata = <<>>
  /\ r = <<>>
  /\ outbound = <<>>
  /\ response = <<>>

ConcInit ==
  /\ env \in ConcEnvs
  /\ request = <<>>
  /\ pc = <<>>
  /\ body = <<>>
  /\ iata = <<>>
  /\ r = <<>>
  /\ outbound = <<>>
  /\ response = <<>>

(***************************************************************************)
(* The handler, one action per stretch of code between two awaits or two   *)
(* gates.                                                                  *)
(***************************************************************************)
\* return resp
Respond(i, resp) ==
  /\ pc' = [pc EXCEPT ![i] = "done"]
  /\ response' = [response EXCEPT ![i] = resp]

\* an exception leaves fetch(request, env): the invocation returns no Response
Throw(i) ==
  /\ pc' = [pc EXCEPT ![i] = "threw"]
  /\ UNCHANGED response

\* the runtime calls fetch(request, env) for a new inbound request
Invoke(i, req) ==
  /\ i \notin Started
  /\ request' = request @@ (i :> req)
  /\ pc' = pc @@ (i :> "entry")
  /\ body' = body @@ (i :> Undefined)
  /\ iata' = iata @@ (i :> Undefined)
  /\ r' = r @@ (i :> NoUpstream)
  /\ outbound' = outbound @@ (i :> <<>>)
  /\ response' = response @@ (i :> NoResponse)
  /\ UNCHANGED env

\* the runtime delivers a request drawn from reqs while fewer than max
\* invocations have been started
Receive(reqs, max) ==
  /\ Cardinality(Started) < max
  /\ \E req \in reqs : Invoke(Cardinality(Started) + 1, req)

\* the method gate tested before the preflight: OPTIONS is refused like any
\* other method
MethodGatePostFirst(i) ==
  /\ i \in Started
  /\ pc[i] = "entry"
  /\ IF request[i].method # "POST"
     THEN Respond(i, MethodNotAllowedResponse)
     ELSE pc' = [pc EXCEPT ![i] = "await_json"] /\ UNCHANGED response
  /\ UNCHANGED <<env, request, body, iata, r, outbound>>

\* a method gate that lets GET through as well
MethodGateGetAllowed(i) ==
  /\ i \in Started
  /\ pc[i] = "entry"
  /\ IF request[i].method = "OPTIONS"
     THEN Respond(i, PreflightResponse)
     ELSE IF request[i].method \notin {"POST", "GET"}
          THEN Respond(i, MethodNotAllowedResponse)
          ELSE pc' = [pc EXCEPT ![i] = "await_json"] /\ UNCHANGED response
  /\ UNCHANGED <<env, request, body, iata, r, outbound>>

\* lines 8-16: CORS preflight and method gate
MethodGate(i) ==
  /\ i \in Started
  /\ pc[i] = "entry"
  /\ IF request[i].method = "OPTIONS"
     THEN Respond(i, PreflightResponse)
     ELSE IF request[i].method # "POST"
          THEN Respond(i, MethodNotAllowedResponse)
          ELSE pc' = [pc EXCEPT ![i] = "await_json"] /\ UNCHANGED response
  /\ UNCHANGED <<env, request, body, iata, r, outbound>>

\* request.json() awaited outside any try/catch: a parse failure leaves the
\* handler as an exception
JsonSettlesUncaught(i) ==
  /\ i \in Started
  /\ pc[i] = "await_json"
  /\ IF request[i].body.parses
     THEN /\ body' = [body EXCEPT ![i] = request[i].body.json]
          /\ pc' = [pc EXCEPT ![i] = "normalize"]
          /\ UNCHANGED response
     ELSE /\ Throw(i)
          /\ UNCHANGED body
  /\ UNCHANGED <<env, request, iata, r, outbound>>

\* lines 18-26: body = await request.json(), or the catch block
JsonSettles(i) ==
  /\ i \in Started
  /\ pc[i] = "await_json"
  /\ IF request[i].body.parses
     THEN /\ body' = [body EXCEPT ![i] = request[i].body.json]
          /\ pc' = [pc EXCEPT ![i] = "normalize"]
          /\ UNCHANGED response
     ELSE /\ Respond(i, InvalidJsonResponse)
          /\ UNCHANGED body
  /\ UNCHANGED <<env, request, iata, r, outbound>>

\* lines 28-34: normalise the code and test it against /^[A-Z]{3}$/
ValidateIata(i) ==
  /\ i \in Started
  /\ pc[i] = "normalize"
  /\ IF PropertyReadThrows(body[i])
     THEN Throw(i) /\ UNCHANGED iata
     ELSE /\ iata' = [iata EXCEPT ![i] = Str(NormalizeIata(body[i]))]
          /\ IF ~IataRegexTest(NormalizeIata(body[i]))
             THEN Respond(i, InvalidIataResponse)
             ELSE pc' = [pc EXCEPT ![i] = "config"] /\ UNCHANGED response
  /\ UNCHANGED <<env, request, body, r, outbound>>

\* lines 36-47: read the five configuration values
CheckConfig(i) ==
  /\ i \in Started
  /\ pc[i] = "config"
  /\ IF MissingConfig(env)
     THEN Respond(i, MissingConfigResponse)
     ELSE pc' = [pc EXCEPT ![i] = "dispatch"] /\ UNCHANGED response
  /\ UNCHANGED <<env, request, body, iata, r, outbound>>

\* a dispatch that is skipped, and reported as done, when another invocation
\* has already sent the same outbound request
DispatchDeduplicated(i) ==
  /\ i \in Started
  /\ pc[i] = "dispatch"
  /\ IF \E j \in Started \ {i} :
          outbound[j] # <<>> /\ outbound[j][1] = OutboundRequest(env, iata[i])
     THEN /\ Respond(i, SuccessResponse(iata[i].v))
          /\ UNCHANGED outbound
     ELSE /\ outbound' = [outbound EXCEPT ![i] = Append(@, OutboundRequest(env, iata[i]))]
          /\ pc' = [pc EXCEPT ![i] = "await_fetch"]
          /\ UNCHANGED response
  /\ UNCHANGED <<env, request, body, iata, r>>

\* lines 49-60: call fetch(url, ...) and await it
Dispatch(i) ==
  /\ i \in Started
  /\ pc[i] = "dispatch"
  /\ outbound' = [outbound EXCEPT ![i] = Append(@, OutboundRequest(env, iata[i]))]
  /\ pc' = [pc EXCEPT ![i] = "await_fetch"]
  /\ UNCHANGED <<env, request, body, iata, r, response>>

\* lines 51, 62, 70-73: the upstream call resolves with a response
FetchResolves(i, u) ==
  /\ i \in Started
  /\ pc[i] = "await_fetch"
  /\ r' = [r EXCEPT ![i] = u]
  /\ IF ~u.ok
     THEN pc' = [pc EXCEPT ![i] = "await_text"] /\ UNCHANGED response
     ELSE Respond(i, SuccessResponse(iata[i].v))
  /\ UNCHANGED <<env, request, body, iata, outbound>>

\* line 51: the upstream call rejects (network error); nothing catches it
FetchRejects(i) ==
  /\ i \in Started
  /\ pc[i] = "await_fetch"
  /\ Throw(i)
  /\ UNCHANGED <<env, request, body, iata, r, outbound>>

\* r.text().catch(() => "")
ReadText(u) == IF u.readable THEN u.text ELSE <<>>

\* r.text() awaited without .catch: a failed read leaves the handler as an
\* exception
TextSettlesUncaught(i) ==
  /\ i \in Started
  /\ pc[i] = "await_text"
  /\ IF r[i].readable
     THEN Respond(i, DispatchFailedResponse(r[i].status, r[i].text))
     ELSE Throw(i)
  /\ UNCHANGED <<env, request, body, iata, r, outbound>>

\* a failed dispatch that is tried again
TextSettlesRetry(i) ==
  /\ i \in Started
  /\ pc[i] = "await_text"
  /\ pc' = [pc EXCEPT ![i] = "dispatch"]
  /\ UNCHANGED <<env, request, body, iata, r, outbound, response>>

\* lines 63-67: the read of the upstream body settles
TextSettles(i) ==
  /\ i \in Started
  /\ pc[i] = "await_text"
  /\ Respond(i, DispatchFailedResponse(r[i].status, ReadText(r[i])))
  /\ UNCHANGED <<env, request, body, iata, r, outbound>>

\* the upstream outcomes a resolved call can carry
Upstreams ==
  {[status |-> s, ok |-> Ok(s), text |-> t, readable |-> b] :
     s \in UpstreamStatuses, t \in UpstreamTexts, b \in BOOLEAN}

Invocations == 1..NInvocations

Handler ==
  \E i \in Invocations :
    \/ MethodGate(i)
    \/ JsonSettles(i)
    \/ ValidateIata(i)
    \/ CheckConfig(i)
    \/ Dispatch(i)
    \/ \E u \in Upstreams : FetchResolves(i, u)
    \/ FetchRejects(i)
    \/ TextSettles(i)

\* one request at a time, any request and any configuration
Next ==
  \/ Receive(Requests, 1)
  \/ Handler

Spec == Init /\ [][Next]_vars

\* NInvocations requests handled concurrently
ConcNext ==
  \/ Receive(ConcRequests, NInvocations)
  \/ Handler

ConcSpec == ConcInit /\ [][ConcNext]_vars

(***************************************************************************)
(* Properties.                                                             *)
(***************************************************************************)
Finished(i) == pc[i] \in {"done", "threw"}

\* the number of outbound calls invocation i has made
Calls(i) == Len(outbound[i])

Letters ==
  {"A", "B", "C", "D", "E", "F", "G", "H", "I", "J", "K", "L", "M",
   "N", "O", "P", "Q", "R", "S", "T", "U", "V", "W", "X", "Y", "Z"}

\* exactly three letters A-Z
IsThreeLetters(s) == Len(s) = 3 /\ \A k \in DOMAIN s : s[k] \in Letters

\* the three fixed CORS headers
CorsHeaders ==
  ("Access-Control-Allow-Origin" :> "*")
  @@ ("Access-Control-Allow-Methods" :> "POST,OPTIONS")
  @@ ("Access-Control-Allow-Headers" :> "content-type")

\* a JSON response: the payload with the CORS headers and the JSON content type
IsJson(resp, status, payload) ==
  /\ resp.status = status
  /\ resp.headers = CorsHeaders @@ ("content-type" :> "application/json")
  /\ resp.body = payload

\* some configuration value is missing or empty
SomeConfigMissing == \E n \in ConfigNames : env[n] \in {Undefined, Str(<<>>)}

\* C5: an OPTIONS request, whatever its body and the configuration, is
\* answered 204 with an empty body and the three CORS headers, and the path
\* is terminal: the body is not parsed, the configuration is not checked and
\* no outbound call is made.
C5_Preflight ==
  \A i \in Started :
    request[i].method = "OPTIONS" =>
      /\ pc[i] \in {"entry", "done"}
      /\ body[i] = Undefined
      /\ Calls(i) = 0
      /\ pc[i] = "done" =>
           /\ response[i].status = 204
           /\ response[i].body = Null
           /\ response[i].headers = CorsHeaders

C5_Witness ==
  \E i \in Started :
    /\ request[i].method = "OPTIONS"
    /\ request[i].body.parses
    /\ SomeConfigMissing
    /\ pc[i] = "done"

\* C6: a request whose method is neither POST nor OPTIONS, whatever its body
\* and the configuration, is answered 405 {ok:false, error:"POST only"}, and
\* no outbound call is made.
C6_MethodNotAllowed ==
  \A i \in Started :
    request[i].method \notin {"POST", "OPTIONS"} =>
      /\ pc[i] \in {"entry", "done"}
      /\ Calls(i) = 0
      /\ pc[i] = "done" =>
           IsJson(response[i], 405, [ok |-> FALSE, error |-> "POST only"])

C6_Witness ==
  \E i \in Started :
    /\ request[i].method = "GET"
    /\ request[i].body.parses
    /\ ~SomeConfigMissing
    /\ pc[i] = "done"

\* C7: a POST request whose body cannot be parsed as JSON, whatever the
\* configuration, is answered 400 {ok:false, error:"Invalid JSON"}, and no
\* outbound call is made.
C7_InvalidJson ==
  \A i \in Started :
    (request[i].method = "POST" /\ ~request[i].body.parses) =>
      /\ pc[i] \in {"entry", "await_json", "done"}
      /\ Calls(i) = 0
      /\ pc[i] = "done" =>
           IsJson(response[i], 400, [ok |-> FALSE, error |-> "Invalid JSON"])

C7_Witness ==
  \E i \in Started :
    /\ request[i].method = "POST"
    /\ ~request[i].body.parses
    /\ SomeConfigMissing
    /\ pc[i] = "done"

\* the code the claims call the normalized iata: the iata field of the parsed
\* body, the empty string when there is none, coerced to a string, trimmed
\* and uppercased
NormalizedIata(json) ==
  IF json.t = "object" /\ "iata" \in DOMAIN json.v /\ ~Falsy(json.v["iata"])
  THEN ToUpperCase(Trim(JsString(json.v["iata"])))
  ELSE <<>>

\* invocation i is a POST whose body parses
ParsedPost(i) == request[i].method = "POST" /\ request[i].body.parses

\* invocation i is a POST whose body parses and carries a valid code
ValidIataPost(i) ==
  ParsedPost(i) /\ IsThreeLetters(NormalizedIata(request[i].body.json))

\* C1: a POST whose body parses as JSON (any JSON value, null included) and
\* whose normalized iata is not exactly three letters A-Z is answered 400
\* {ok:false, error:"IATA must be 3 letters"}, whatever the configuration,
\* and no outbound call is made.
C1_InvalidIata ==
  \A i \in Started :
    (ParsedPost(i) /\ ~IsThreeLetters(NormalizedIata(request[i].body.json))) =>
      /\ Calls(i) = 0
      /\ Finished(i) =>
           /\ pc[i] = "done"
           /\ IsJson(response[i], 400, [ok |-> FALSE, error |-> "IATA must be 3 letters"])

\* C1 for every parsed body except the JSON value null: what the handler
\* does keep of the claim.
C1_InvalidIataExceptNull ==
  \A i \in Started :
    (/\ ParsedPost(i)
     /\ request[i].body.json # Null
     /\ ~IsThreeLetters(NormalizedIata(request[i].body.json))) =>
      /\ Calls(i) = 0
      /\ pc[i] \in {"entry", "await_json", "normalize", "done"}
      /\ pc[i] = "done" =>
           IsJson(response[i], 400, [ok |-> FALSE, error |-> "IATA must be 3 letters"])

\* C2: a POST with a parseable body and a valid normalized iata, when at
\* least one of the five configuration values is missing or empty, is
\* answered 500 with the fixed body {ok:false, error:"Missing env
\* vars/secrets"}, which holds none of the configuration values, and no
\* outbound call is made.
C2_MissingConfig ==
  \A i \in Started :
    (ValidIataPost(i) /\ SomeConfigMissing) =>
      /\ Calls(i) = 0
      /\ pc[i] \in {"entry", "await_json", "normalize", "config", "done"}
      /\ pc[i] = "done" =>
           /\ IsJson(response[i], 500, [ok |-> FALSE, error |-> "Missing env vars/secrets"])
           /\ \A n \in ConfigNames :
                env[n].t = "string" =>
                  \A k \in DOMAIN env[n].v : env[n].v[k] # response[i].body.error

C2_Witness ==
  \E i \in Started :
    /\ ValidIataPost(i)
    /\ env.GH_TOKEN = Str(<<>>)
    /\ \A n \in ConfigNames \ {"GH_TOKEN"} : env[n] \notin {Undefined, Str(<<>>)}
    /\ pc[i] = "done"
    /\ response[i].status = 500

\* the upstream call of invocation i has resolved with a response
Resolved(i) == r[i] # NoUpstream

\* status is not of the form 2xx
Non2xx(status) == status \div 100 # 2

\* C3: when the outbound call returns a non-2xx status s, the response is 502
\* {ok:false, error:"GitHub dispatch failed", status:s, detail:d}, d the
\* upstream body text when it can be read and the empty string when reading
\* it fails; a failed read never changes the status nor becomes an error.
C3_DispatchFailed ==
  \A i \in Started :
    (Resolved(i) /\ Non2xx(r[i].status)) =>
      /\ pc[i] \in {"await_text", "done"}
      /\ pc[i] = "done" =>
           IsJson(response[i], 502,
                  [ok |-> FALSE, error |-> "GitHub dispatch failed",
                   status |-> r[i].status,
                   detail |-> IF r[i].readable THEN r[i].text ELSE <<>>])

C3_Witness ==
  \E i \in Started :
    /\ Resolved(i)
    /\ r[i].status = 404
    /\ ~r[i].readable
    /\ r[i].text # <<>>
    /\ pc[i] = "done"
    /\ response[i].body.detail = <<>>

\* C4: a POST whose iata field, trimmed and uppercased, is exactly three
\* letters A-Z, with all five configuration values non-empty and a 2xx
\* upstream response, is answered 200 {ok:true, dispatched:true, iata:c}, c
\* the normalized code, the same value that went upstream as inputs.iata
\* (" jfk " and "jfk" both give "JFK"); no such request ends before its
\* outbound call is made.
C4_Success ==
  /\ \A i \in Started :
       (ValidIataPost(i) /\ ~SomeConfigMissing /\ Finished(i)) => Calls(i) = 1
  /\ \A i \in Started :
    (/\ ValidIataPost(i)
     /\ ~SomeConfigMissing
     /\ Resolved(i)
     /\ ~Non2xx(r[i].status)) =>
      /\ pc[i] = "done"
      /\ IsJson(response[i], 200,
                [ok |-> TRUE, dispatched |-> TRUE,
                 iata |-> NormalizedIata(request[i].body.json)])
      /\ Calls(i) = 1
      /\ outbound[i][1].body.inputs.iata = Str(response[i].body.iata)
      /\ request[i].body.json \in
           {IataObject(Str(<<" ", "j", "f", "k", " ">>)), IataObject(Str(<<"j", "f", "k">>))}
           => response[i].body.iata = <<"J", "F", "K">>

C4_Witness ==
  \E i \in Started :
    /\ request[i].method = "POST"
    /\ request[i].body.json = IataObject(Str(<<" ", "j", "f", "k", " ">>))
    /\ Resolved(i)
    /\ r[i].status = 204
    /\ pc[i] = "done"
    /\ response[i].status = 200

\* C9: an invocation that reached the outbound call ends with one of the
\* specified responses, 200 or 502, whether the call returned 2xx, returned
\* non-2xx or failed without an upstream response.
C9_DispatchedResponds ==
  \A i \in Started :
    (Calls(i) >= 1 /\ Finished(i)) =>
      /\ pc[i] = "done"
      /\ response[i].status \in {200, 502}

\* C10: an invocation issues the outbound call at most once, and only after
\* the gates passed in order: POST, body parsed, normalized iata of three
\* letters A-Z, five non-empty configuration values; so inputs.iata of every
\* outbound body matches [A-Z]{3} and its ref is the configured
\* GH_WORKFLOW_REF.
C10_DispatchGated ==
  \A i \in Started :
    /\ Calls(i) <= 1
    /\ Calls(i) = 1 =>
         /\ ValidIataPost(i)
         /\ ~SomeConfigMissing
         /\ pc[i] \in {"await_fetch", "await_text", "done", "threw"}
         /\ body[i] = request[i].body.json
         /\ outbound[i][1].body.inputs.iata.t = "string"
         /\ IsThreeLetters(outbound[i][1].body.inputs.iata.v)
         /\ outbound[i][1].body.ref = env.GH_WORKFLOW_REF
         /\ outbound[i][1].body.ref.t = "string"

C10_Witness ==
  \E i \in Started :
    /\ Calls(i) = 1
    /\ pc[i] = "done"
    /\ response[i].status = 502
    /\ request[i].body.json = IataObject(Str(<<"s", "ß">>))

\* what one invocation, run alone, ends with for request q under
\* configuration e when its upstream call (if it makes one) resolves with u,
\* or rejects (u = NoUpstream): <<"done", its Response>>, or <<"threw",
\* NoResponse>> when an exception leaves the handler
SoloOutcome(q, e, u) ==
  LET json == q.body.json
      code == NormalizedIata(json)
      missing == \E n \in ConfigNames : e[n] \in {Undefined, Str(<<>>)}
  IN CASE q.method = "OPTIONS" ->
            <<"done", [status |-> 204, headers |-> CorsHeaders, body |-> Null]>>
       [] q.method \notin {"OPTIONS", "POST"} ->
            <<"done", JsonResponse(405, [ok |-> FALSE, error |-> "POST only"])>>
       [] q.method = "POST" /\ ~q.body.parses ->
            <<"done", JsonResponse(400, [ok |-> FALSE, error |-> "Invalid JSON"])>>
       [] q.method = "POST" /\ q.body.parses /\ json = Null ->
            <<"threw", NoResponse>>
       [] q.method = "POST" /\ q.body.parses /\ json # Null /\ ~IsThreeLetters(code) ->
            <<"done", JsonResponse(400, [ok |-> FALSE, error |-> "IATA must be 3 letters"])>>
       [] OTHER ->
            IF missing
            THEN <<"done", JsonResponse(500, [ok |-> FALSE, error |-> "Missing env vars/secrets"])>>
            ELSE IF u = NoUpstream
                 THEN <<"threw", NoResponse>>
                 ELSE IF Non2xx(u.status)
                      THEN <<"done", JsonResponse(502,
                               [ok |-> FALSE, error |-> "GitHub dispatch failed",
                                status |-> u.status,
                                detail |-> IF u.readable THEN u.text ELSE <<>>])>>
                      ELSE <<"done", JsonResponse(200,
                               [ok |-> TRUE, dispatched |-> TRUE, iata |-> code])>>

\* invocation i has come to its outbound call
PastDispatch(i) == pc[i] \in {"await_fetch", "await_text", "done", "threw"}

\* the outbound calls made so far, over all invocations
RECURSIVE TotalCalls(_)
TotalCalls(S) ==
  IF S = {} THEN 0
  ELSE LET i == CHOOSE x \in S : TRUE IN Calls(i) + TotalCalls(S \ {i})

\* C8: invocations are independent: handled in any interleaving, each valid
\* POST issues its own upstream dispatch (two identical requests give two
\* dispatches, none is deduplicated), and what an invocation ends with
\* depends only on its own request, the configuration and its own upstream
\* result.
C8_Independent ==
  /\ \A i \in Started :
       /\ Calls(i) = IF ValidIataPost(i) /\ ~SomeConfigMissing /\ PastDispatch(i)
                     THEN 1 ELSE 0
       /\ Finished(i) => <<pc[i], response[i]>> = SoloOutcome(request[i], env, r[i])
  /\ TotalCalls(Started) =
       Cardinality({i \in Started :
                      ValidIataPost(i) /\ ~SomeConfigMissing /\ PastDispatch(i)})

C8_Witness ==
  \E i, j \in Started :
    /\ i # j
    /\ request[i] = ValidPost
    /\ request[j] = ValidPost
    /\ pc[i] = "done"
    /\ pc[j] = "done"
    /\ response[i].status = 200
    /\ response[j].status = 502
    /\ outbound[i] = outbound[j]
    /\ TotalCalls(Started) = 2

====
